---------------------------- MODULE Spec2Model ----------------------------
(***************************************************************************)
(* A model of the PyCHIP8 interpreter: the CPU object of PyCHIP8/cpu.py,   *)
(* the part of the Screen object of PyCHIP8/screen.py that the CPU's       *)
(* handlers reach, and the operations a client of the CPU (the driver of   *)
(* PyCHIP8.py, or a test) invokes on it.                                   *)
(*                                                                         *)
(* The CPU's fields are the variables.  Every public operation is one      *)
(* action that runs the whole Python method, including the handler that    *)
(* execute_opcode dispatches to.  A Python exception that leaves a method  *)
(* is recorded in exc (its class name) together with the state the method  *)
(* had reached when it was raised.                                         *)
(***************************************************************************)
EXTENDS Integers, Sequences, FiniteSets, TLC

(***************************************************************************)
(* Program constants (PyCHIP8/conf.py).                                    *)
(***************************************************************************)
STACK_POINTER == 82

MAX_MEMORY == 4096

PROGRAM_COUNTER == 512

NUMBER_OF_REGISTERS == 16

NORMAL_MODE == "NORMAL"

EXTENDED_MODE == "EXTENDED"

(***************************************************************************)
(* Bounds of the model.                                                    *)
(***************************************************************************)
\* execute_opcode calls explored in one behaviour
MaxSteps == 3

\* the largest value a client puts in a timer
MaxTimer == 10

\* execute_opcode calls explored in a behaviour that unwinds the stack
MaxUnwindSteps == 42

\* handler calls explored in one behaviour of a client that calls handlers
MaxCalls == 2

\* execute_opcode calls explored in a behaviour of calls and returns
MaxCallSteps == 5

(***************************************************************************)
(* Python's integer operators on non-negative integers.                    *)
(***************************************************************************)
RECURSIVE Pow2(_)
Pow2(n) == IF n = 0 THEN 1 ELSE 2 * Pow2(n - 1)

\* a >> n
Shr(a, n) == a \div Pow2(n)

\* a << n
Shl(a, n) == a * Pow2(n)

RECURSIVE BitAnd(_, _)
BitAnd(a, b) ==
    IF a = 0 \/ b = 0 THEN 0
    ELSE (a % 2) * (b % 2) + 2 * BitAnd(a \div 2, b \div 2)

RECURSIVE BitOr(_, _)
BitOr(a, b) ==
    IF a = 0 THEN b
    ELSE IF b = 0 THEN a
    ELSE (IF a % 2 = 1 \/ b % 2 = 1 THEN 1 ELSE 0) + 2 * BitOr(a \div 2, b \div 2)

RECURSIVE BitXor(_, _)
BitXor(a, b) ==
    IF a = 0 THEN b
    ELSE IF b = 0 THEN a
    ELSE ((a + b) % 2) + 2 * BitXor(a \div 2, b \div 2)

(***************************************************************************)
(* Python's sequence indexing: seq[k] on a sequence of length n serves     *)
(* k in 0..n-1, serves k in -n..-1 as k + n, and raises IndexError         *)
(* elsewhere.  PyIndex is the cell served, or -1 for IndexError.           *)
(***************************************************************************)
PyIndex(k, n) ==
    IF k >= 0 /\ k < n THEN k
    ELSE IF k < 0 /\ k >= -n THEN k + n
    ELSE -1

\* a bytearray cell accepts the integers 0..255 and raises ValueError otherwise
IsByte(b) == b >= 0 /\ b <= 255

(***************************************************************************)
(* The CPU object's fields (CPU.__init__), the fields of the Screen it     *)
(* holds, and the outcome of the last operation.                           *)
(*   memory      bytearray(MAX_MEMORY), kept as the function from the      *)
(*               cells in 0..MAX_MEMORY-1 that hold a non-zero byte to     *)
(*               that byte (MemAt reads a cell, MemPut writes one)         *)
(*   v           the registers: the empty list until reset(), then a       *)
(*               bytearray, a function on 0..NUMBER_OF_REGISTERS-1         *)
(*   surface     the display surface, as the set of logical cells <<x, y>> *)
(*               whose stored colour is the raw value 1; every other cell  *)
(*               holds SCREEN_COLORS[0]                                    *)
(*   exc         the exception that ended the last operation, or "none"    *)
(*   exc_opcode  the opcode an UnknownInstructionException carries         *)
(*   last        the last operation invoked on the CPU                     *)
(*   nsteps      the number of execute_opcode calls, or of direct calls of *)
(*               a handler, made so far                                    *)
(*   loaded      whether load_rom has been called                          *)
(*   args        the arguments of the last operation that takes any: the   *)
(*               file content and the address of load_rom, the held keys   *)
(*               of a key event; <<>> otherwise                            *)
(*   waiting     whether the CPU is inside the loop of wait_for_keypress   *)
(***************************************************************************)
VARIABLES memory, v, pc, sp, i, timer_dt, timer_st, running, mode, opcode,
          screen_mode, surface, exc, exc_opcode, last, nsteps, loaded, args,
          waiting

vars == <<memory, v, pc, sp, i, timer_dt, timer_st, running, mode, opcode,
          screen_mode, surface, exc, exc_opcode, last, nsteps, loaded, args,
          waiting>>

\* the object state a method works on
Cur ==
    [memory |-> memory, v |-> v, pc |-> pc, sp |-> sp, i |-> i,
     timer_dt |-> timer_dt, timer_st |-> timer_st, running |-> running,
     mode |-> mode, opcode |-> opcode, screen_mode |-> screen_mode,
     surface |-> surface, exc |-> "none", exc_opcode |-> -1]

\* the object state a method leaves
Becomes(s) ==
    /\ memory' = s.memory
    /\ v' = s.v
    /\ pc' = s.pc
    /\ sp' = s.sp
    /\ i' = s.i
    /\ timer_dt' = s.timer_dt
    /\ timer_st' = s.timer_st
    /\ running' = s.running
    /\ mode' = s.mode
    /\ opcode' = s.opcode
    /\ screen_mode' = s.screen_mode
    /\ surface' = s.surface
    /\ exc' = s.exc
    /\ exc_opcode' = s.exc_opcode

\* memory[a], for a cell a in 0..MAX_MEMORY-1
MemAt(m, a) == IF a \in DOMAIN m THEN m[a] ELSE 0

\* memory after memory[a] = b, for a cell a and a byte b
MemPut(m, a, b) ==
    IF b = 0 THEN [c \in (DOMAIN m) \ {a} |-> m[c]]
    ELSE [c \in (DOMAIN m) \cup {a} |-> IF c = a THEN b ELSE m[c]]

\* raise an exception: the method stops in the state it has reached
Raise(s, e) == [s EXCEPT !.exc = e]

\* seq[k] = b on the bytearray memory
MemStore(s, k, b) ==
    IF PyIndex(k, MAX_MEMORY) = -1 THEN Raise(s, "IndexError")
    ELSE IF ~IsByte(b) THEN Raise(s, "ValueError")
    ELSE [s EXCEPT !.memory = MemPut(s.memory, PyIndex(k, MAX_MEMORY), b)]

\* self.v[x] = b on the bytearray v
RegStore(s, x, b) ==
    IF ~IsByte(b) THEN Raise(s, "ValueError")
    ELSE [s EXCEPT !.v[x] = b]

\* the statements F after the statements that left s: skipped once s raised
Then(s, F(_)) == IF s.exc # "none" THEN s ELSE F(s)

(***************************************************************************)
(* CPU.__init__                                                            *)
(***************************************************************************)
Init ==
    /\ memory = <<>>
    /\ v = <<>>
    /\ pc = 0
    /\ sp = 0
    /\ i = 0
    /\ timer_dt = 0
    /\ timer_st = 0
    /\ running = FALSE
    /\ mode = NORMAL_MODE
    /\ opcode = 0
    /\ screen_mode = NORMAL_MODE
    /\ surface = {}
    /\ exc = "none"
    /\ exc_opcode = -1
    /\ last = "construct"
    /\ nsteps = 0
    /\ loaded = FALSE
    /\ args = <<>>
    /\ waiting = FALSE

(***************************************************************************)
(* CPU.reset                                                               *)
(***************************************************************************)
\* reset that leaves the stack pointer as it is
reset_keeps_sp(s) ==
    [s EXCEPT !.v = [r \in 0..(NUMBER_OF_REGISTERS - 1) |-> 0],
              !.pc = PROGRAM_COUNTER,
              !.i = 0,
              !.timer_dt = 0,
              !.timer_st = 0]

reset(s) ==
    [s EXCEPT !.v = [r \in 0..(NUMBER_OF_REGISTERS - 1) |-> 0],
              !.pc = PROGRAM_COUNTER,
              !.sp = STACK_POINTER,
              !.i = 0,
              !.timer_dt = 0,
              !.timer_st = 0]

Reset ==
    /\ ~waiting
    /\ Becomes(reset(Cur))
    /\ last' = "reset"
    /\ args' = <<>>
    /\ UNCHANGED <<nsteps, loaded, waiting>>

(***************************************************************************)
(* CPU.decrement_values_in_timers                                          *)
(***************************************************************************)
\* the tick with the delay timer lowered only while the sound timer runs
decrement_values_in_timers_nested(s) ==
    IF s.timer_st > 0
    THEN LET s1 == [s EXCEPT !.timer_st = s.timer_st - 1]
         IN  IF s1.timer_dt > 0 THEN [s1 EXCEPT !.timer_dt = s1.timer_dt - 1] ELSE s1
    ELSE s

decrement_values_in_timers(s) ==
    LET s1 == IF s.timer_st > 0 THEN [s EXCEPT !.timer_st = s.timer_st - 1] ELSE s
    IN  IF s1.timer_dt > 0 THEN [s1 EXCEPT !.timer_dt = s1.timer_dt - 1] ELSE s1

DecrementTimers ==
    /\ exc = "none"
    /\ ~waiting
    /\ Becomes(decrement_values_in_timers(Cur))
    /\ last' = "decrement_values_in_timers"
    /\ args' = <<>>
    /\ UNCHANGED <<nsteps, loaded, waiting>>

(***************************************************************************)
(* CPU.load_rom: the loop copies the bytes of the file one by one, index   *)
(* ascending, so an IndexError at one byte leaves the bytes before it in   *)
(* memory.  The result of the loop is written cell by cell: a cell holds   *)
(* the last byte the loop stored in it.                                    *)
(***************************************************************************)
MinOf(S) == CHOOSE k \in S : \A m \in S : k <= m

MaxOf(S) == CHOOSE k \in S : \A m \in S : k >= m

\* load_rom with the last byte of the file left out
load_rom_short(s, rom_data, address) ==
    LET failing == {index \in 0..(Len(rom_data) - 2) :
                        PyIndex(address + index, MAX_MEMORY) = -1}
        copied == IF failing = {} THEN MaxOf({0, Len(rom_data) - 1})
                  ELSE MinOf(failing)
        cells == {PyIndex(address + index, MAX_MEMORY) : index \in 0..(copied - 1)}
        stored(a) == {index \in 0..(copied - 1) :
                          PyIndex(address + index, MAX_MEMORY) = a}
        byte(a) == IF a \in cells THEN rom_data[MaxOf(stored(a)) + 1]
                   ELSE MemAt(s.memory, a)
    IN  [s EXCEPT !.memory = [a \in {c \in (DOMAIN s.memory) \cup cells :
                                         byte(c) # 0} |-> byte(a)],
                  !.exc = IF failing = {} THEN "none" ELSE "IndexError"]

load_rom(s, rom_data, address) ==
    LET failing == {index \in 0..(Len(rom_data) - 1) :
                        PyIndex(address + index, MAX_MEMORY) = -1}
        copied == IF failing = {} THEN Len(rom_data) ELSE MinOf(failing)
        cells == {PyIndex(address + index, MAX_MEMORY) : index \in 0..(copied - 1)}
        stored(a) == {index \in 0..(copied - 1) :
                          PyIndex(address + index, MAX_MEMORY) = a}
        byte(a) == IF a \in cells THEN rom_data[MaxOf(stored(a)) + 1]
                   ELSE MemAt(s.memory, a)
    IN  [s EXCEPT !.memory = [a \in {c \in (DOMAIN s.memory) \cup cells :
                                         byte(c) # 0} |-> byte(a)],
                  !.exc = IF failing = {} THEN "none" ELSE "IndexError"]

(***************************************************************************)
(* The fields of an opcode.                                                *)
(***************************************************************************)
\* (self.opcode & 0xF000) >> 12
four_oldest_bits(op) == Shr(BitAnd(op, 61440), 12)

\* (self.opcode & 0x0F00) >> 8
OpX(op) == Shr(BitAnd(op, 3840), 8)

\* (self.opcode & 0x00F0) >> 4
OpY(op) == Shr(BitAnd(op, 240), 4)

\* self.opcode & 0x000F
OpN(op) == BitAnd(op, 15)

\* self.opcode & 0x00FF
OpNN(op) == BitAnd(op, 255)

\* self.opcode & 0x0FFF
OpNNN(op) == BitAnd(op, 4095)

(***************************************************************************)
(* Screen (PyCHIP8/screen.py).  Screen.__init__ sets the size once, from   *)
(* the mode it is constructed with, multiplied by the scale; the surface   *)
(* is painted in squares of scale x scale pixels, one per logical cell.    *)
(***************************************************************************)
SCREEN_WIDTH_NORMAL == 64

SCREEN_HEIGHT_NORMAL == 32

SCREEN_WIDTH_EXTENDED == 128

SCREEN_HEIGHT_EXTENDED == 64

\* the default of Screen.__init__'s scale parameter, which the driver uses
scale == 10

\* Screen.width and Screen.height: set by set_according_screen_size, which
\* only Screen.__init__ calls, and multiplied by the scale in their setters
screen_width == SCREEN_WIDTH_NORMAL * scale

screen_height == SCREEN_HEIGHT_NORMAL * scale

\* Screen.scroll_up: height and width are floats (true division), and
\* range() of a float raises TypeError before any pixel is read or drawn
scroll_up(s, number_of_lines) == Raise(s, "TypeError")

\* Screen.scroll_down: as scroll_up
scroll_down(s, number_of_lines) == Raise(s, "TypeError")

\* Screen.scroll_right takes no argument; the CPU passes it self.mode,
\* so the call raises TypeError
scroll_right(s, arg) == Raise(s, "TypeError")

\* Screen.scroll_left: as scroll_right
scroll_left(s, arg) == Raise(s, "TypeError")

\* Screen.clear: the whole surface is filled with SCREEN_COLORS[0]
clear(s) == [s EXCEPT !.surface = {}]

\* Screen.get_pixel_value, or -1 for the ValueError of list.index: a cell
\* that holds the raw value 1 reads as a colour that is not in SCREEN_COLORS
get_pixel_value(s, x, y) == IF <<x, y>> \in s.surface THEN -1 ELSE 0

\* Screen.draw_pixel with a raw value 0 or 1 as the colour
draw_pixel(s, x, y, pixel) ==
    IF pixel = 1 THEN [s EXCEPT !.surface = s.surface \cup {<<x, y>>}]
    ELSE [s EXCEPT !.surface = s.surface \ {<<x, y>>}]

(***************************************************************************)
(* The handlers of the leading-zero group.                                 *)
(***************************************************************************)
screen_scroll_up(s, number_of_lines) == scroll_up(s, number_of_lines)

screen_scroll_down(s, number_of_lines) == scroll_down(s, number_of_lines)

clear_screen(s) == clear(s)

\* 0x00EE with the two bytes of the address read in the other order
return_from_subroutine_high_first(s) ==
    LET s1 == [s EXCEPT !.sp = s.sp - 2]
        hi == PyIndex(s1.sp, MAX_MEMORY)
        lo == PyIndex(s1.sp + 1, MAX_MEMORY)
    IN  IF hi = -1 \/ lo = -1 THEN Raise(s1, "IndexError")
        ELSE [s1 EXCEPT !.pc = BitOr(Shl(MemAt(s1.memory, hi), 8),
                                     MemAt(s1.memory, lo))]

\* 0x00EE
return_from_subroutine(s) ==
    LET s1 == [s EXCEPT !.sp = s.sp - 2]
        hi == PyIndex(s1.sp + 1, MAX_MEMORY)
        lo == PyIndex(s1.sp, MAX_MEMORY)
    IN  IF hi = -1 \/ lo = -1 THEN Raise(s1, "IndexError")
        ELSE [s1 EXCEPT !.pc = BitOr(Shl(MemAt(s1.memory, hi), 8),
                                     MemAt(s1.memory, lo))]

screen_scroll_right(s) == scroll_right(s, s.mode)

screen_scroll_left(s) == scroll_left(s, s.mode)

\* 0x00FD; also called by the driver on a quit event
exit(s) == [s EXCEPT !.running = FALSE]

\* 0x00FE: Screen.disable_extended_screen only sets the screen's mode
disable_extended_screen(s) ==
    [s EXCEPT !.mode = NORMAL_MODE, !.screen_mode = NORMAL_MODE]

\* 0x00FF: Screen.enable_extended_screen only sets the screen's mode
enable_extended_screen(s) ==
    [s EXCEPT !.mode = EXTENDED_MODE, !.screen_mode = EXTENDED_MODE]

\* the keys of self.leading_zero_opcodes_lookup
leading_zero_opcodes_lookup == {224, 238, 251, 252, 253, 254, 255}

execute_leading_zero_opcodes(s) ==
    LET s1 == IF BitAnd(s.opcode, 240) = 176
              THEN screen_scroll_up(s, OpN(s.opcode)) ELSE s
        s2 == Then(s1, LAMBDA t: IF BitAnd(t.opcode, 240) = 192
                                 THEN screen_scroll_down(t, OpN(t.opcode)) ELSE t)
        operation == OpNN(s.opcode)
    IN  Then(s2, LAMBDA t:
            CASE operation = 224 -> clear_screen(t)
              [] operation = 238 -> return_from_subroutine(t)
              [] operation = 251 -> screen_scroll_right(t)
              [] operation = 252 -> screen_scroll_left(t)
              [] operation = 253 -> exit(t)
              [] operation = 254 -> disable_extended_screen(t)
              [] operation = 255 -> enable_extended_screen(t)
              [] OTHER -> Raise(t, "KeyError"))

(***************************************************************************)
(* The handlers selected by the leading nibble alone.                      *)
(***************************************************************************)
\* 0x1NNN
jump_to_address(s) == [s EXCEPT !.pc = OpNNN(s.opcode)]

\* 0x2NNN: both stores go to memory[sp]; sp is not written
jump_to_subroutine(s) ==
    LET s1 == MemStore(s, s.sp, BitAnd(s.pc, 255))
        s2 == Then(s1, LAMBDA t: [t EXCEPT !.pc = t.pc + 1])
        s3 == Then(s2, LAMBDA t: MemStore(t, t.sp, Shr(BitAnd(t.pc, 65280), 8)))
        s4 == Then(s3, LAMBDA t: [t EXCEPT !.pc = t.pc + 1])
    IN  Then(s4, LAMBDA t: [t EXCEPT !.pc = OpNNN(t.opcode)])

\* 0x3XNN
skip_if_register_equals_value(s) ==
    IF s.v[OpX(s.opcode)] = OpNN(s.opcode) THEN [s EXCEPT !.pc = s.pc + 2] ELSE s

\* 0x4XNN with the comparison of 0x3XNN
skip_if_register_not_equals_value_as_equals(s) ==
    IF s.v[OpX(s.opcode)] = OpNN(s.opcode) THEN [s EXCEPT !.pc = s.pc + 2] ELSE s

\* 0x4XNN
skip_if_register_not_equals_value(s) ==
    IF s.v[OpX(s.opcode)] # OpNN(s.opcode) THEN [s EXCEPT !.pc = s.pc + 2] ELSE s

\* 0x5XY0
skip_if_register_equal_other_register(s) ==
    IF s.v[OpX(s.opcode)] = s.v[OpY(s.opcode)] THEN [s EXCEPT !.pc = s.pc + 2] ELSE s

\* 0x6XNN
move_value_to_register(s) == RegStore(s, OpX(s.opcode), OpNN(s.opcode))

\* 0x7XNN: the sum is stored in a bytearray cell as it is
add_value_to_register(s) ==
    RegStore(s, OpX(s.opcode), s.v[OpX(s.opcode)] + OpNN(s.opcode))

\* 0x9XY0
skip_if_register_not_equal_other_register(s) ==
    IF s.v[OpX(s.opcode)] # s.v[OpY(s.opcode)] THEN [s EXCEPT !.pc = s.pc + 2] ELSE s

\* 0xANNN
move_value_to_index(s) == [s EXCEPT !.i = OpNNN(s.opcode)]

\* 0xBNNN
jump_to_address_plus_v_zero(s) == [s EXCEPT !.pc = s.v[0] + OpNNN(s.opcode)]

\* 0xCXNN; rnd is the value of randint(0, 255)
generate_random_number(s, rnd) ==
    RegStore(s, OpX(s.opcode), BitAnd(OpNN(s.opcode), rnd))

(***************************************************************************)
(* The handlers of the leading-eight group.                                *)
(***************************************************************************)
\* 0x8XY0
move_register_to_register(s) == RegStore(s, OpX(s.opcode), s.v[OpY(s.opcode)])

\* 0x8XY1
register_logical_or_register(s) ==
    RegStore(s, OpX(s.opcode), BitOr(s.v[OpX(s.opcode)], s.v[OpY(s.opcode)]))

\* 0x8XY2
register_logical_and_register(s) ==
    RegStore(s, OpX(s.opcode), BitAnd(s.v[OpX(s.opcode)], s.v[OpY(s.opcode)]))

\* 0x8XY3
register_logical_xor_register(s) ==
    RegStore(s, OpX(s.opcode), BitXor(s.v[OpX(s.opcode)], s.v[OpY(s.opcode)]))

\* 0x8XY4 with the carry taken from sum > 256
add_register_to_register_late_carry(s) ==
    LET x == OpX(s.opcode)
        y == OpY(s.opcode)
        sum == s.v[x] + s.v[y]
    IN  IF sum > 256
        THEN Then(RegStore(s, x, sum - 256), LAMBDA t: RegStore(t, 15, 1))
        ELSE Then(RegStore(s, x, sum), LAMBDA t: RegStore(t, 15, 0))

\* 0x8XY4
add_register_to_register(s) ==
    LET x == OpX(s.opcode)
        y == OpY(s.opcode)
        sum == s.v[x] + s.v[y]
    IN  IF sum > 255
        THEN Then(RegStore(s, x, sum - 256), LAMBDA t: RegStore(t, 15, 1))
        ELSE Then(RegStore(s, x, sum), LAMBDA t: RegStore(t, 15, 0))

\* 0x8XY5: the else branch runs for v[x] <= v[y] and stores v[x] - (v[y] - 256)
subtract_register_from_register(s) ==
    LET x == OpX(s.opcode)
        y == OpY(s.opcode)
    IN  IF s.v[x] > s.v[y]
        THEN Then(RegStore(s, x, s.v[x] - s.v[y]), LAMBDA t: RegStore(t, 15, 1))
        ELSE Then(RegStore(s, x, s.v[x] - (s.v[y] - 256)),
                  LAMBDA t: RegStore(t, 15, 0))

\* 0x8XY6 in the original CHIP-8 form, which shifts Vy into Vx
shift_register_right_of_vy(s) ==
    LET x == OpX(s.opcode)
        y == OpY(s.opcode)
    IN  Then(RegStore(s, 15, BitAnd(s.v[y], 1)),
             LAMBDA t: RegStore(t, x, Shr(t.v[y], 1)))

\* 0x8XY6
shift_register_right(s) ==
    LET x == OpX(s.opcode)
    IN  Then(RegStore(s, 15, BitAnd(s.v[x], 1)),
             LAMBDA t: RegStore(t, x, Shr(t.v[x], 1)))

\* 0x8XY7: the else branch runs for v[y] <= v[x] and stores v[y] + 256 - v[x]
negative_subtract_register_from_register(s) ==
    LET x == OpX(s.opcode)
        y == OpY(s.opcode)
    IN  IF s.v[y] > s.v[x]
        THEN Then(RegStore(s, x, s.v[y] - s.v[x]), LAMBDA t: RegStore(t, 15, 1))
        ELSE Then(RegStore(s, x, s.v[y] + 256 - s.v[x]),
                  LAMBDA t: RegStore(t, 15, 0))

\* 0x8XYE: the flag is (v[x] & 0x80) >> 8, and the shifted value is stored
\* in a bytearray cell as it is
shift_register_left(s) ==
    LET x == OpX(s.opcode)
    IN  Then(RegStore(s, 15, Shr(BitAnd(s.v[x], 128), 8)),
             LAMBDA t: RegStore(t, x, Shl(t.v[x], 1)))

\* the keys of self.leading_eight_opcodes_lookup
leading_eight_opcodes_lookup == {0, 1, 2, 3, 4, 5, 6, 7, 14}

\* the group's dispatch with an unknown selector skipped
execute_leading_eight_opcodes_skips(s) ==
    LET operation == OpN(s.opcode)
    IN  CASE operation = 0 -> move_register_to_register(s)
          [] operation = 1 -> register_logical_or_register(s)
          [] operation = 2 -> register_logical_and_register(s)
          [] operation = 3 -> register_logical_xor_register(s)
          [] operation = 4 -> add_register_to_register(s)
          [] operation = 5 -> subtract_register_from_register(s)
          [] operation = 6 -> shift_register_right(s)
          [] operation = 7 -> negative_subtract_register_from_register(s)
          [] operation = 14 -> shift_register_left(s)
          [] OTHER -> s

execute_leading_eight_opcodes(s) ==
    LET operation == OpN(s.opcode)
    IN  CASE operation = 0 -> move_register_to_register(s)
          [] operation = 1 -> register_logical_or_register(s)
          [] operation = 2 -> register_logical_and_register(s)
          [] operation = 3 -> register_logical_xor_register(s)
          [] operation = 4 -> add_register_to_register(s)
          [] operation = 5 -> subtract_register_from_register(s)
          [] operation = 6 -> shift_register_right(s)
          [] operation = 7 -> negative_subtract_register_from_register(s)
          [] operation = 14 -> shift_register_left(s)
          [] OTHER -> Raise(s, "KeyError")

(***************************************************************************)
(* 0xDXYN, CPU.draw_sprite.  The three nested loops are run as one loop    *)
(* over k = (horizontal_line_num * num_of_bytes + b) * 8 + vertical_line_num. *)
(* x and y are the opcode's register numbers; pixels is the 8-character    *)
(* binary string of the sprite byte, indexed with x_pos.                   *)
(***************************************************************************)
\* int(bin(byte)[2:].zfill(8)[index]), or -1 for the IndexError of the string
PixelOfByte(byte, index) ==
    IF PyIndex(index, 8) = -1 THEN -1
    ELSE Shr(byte, 7 - PyIndex(index, 8)) % 2

RECURSIVE draw_sprite_from(_, _, _)
draw_sprite_from(s, num_of_bytes, k) ==
    LET x == OpX(s.opcode)
        y == OpY(s.opcode)
        n == OpN(s.opcode)
        horizontal_line_num == k \div (8 * num_of_bytes)
        b == (k \div 8) % num_of_bytes
        vertical_line_num == k % 8
        address == PyIndex(s.i + horizontal_line_num + b, MAX_MEMORY)
        y_pos == (y + horizontal_line_num) % screen_height
        x_pos == (x + vertical_line_num + b * 8) % screen_width
        pixel == PixelOfByte(MemAt(s.memory, address), x_pos)
        current_pixel == get_pixel_value(s, x_pos, y_pos)
    IN  IF s.exc # "none" \/ k >= n * num_of_bytes * 8 THEN s
        ELSE IF address = -1 THEN Raise(s, "IndexError")
        ELSE IF pixel = -1 THEN Raise(s, "IndexError")
        ELSE IF current_pixel = -1 THEN Raise(s, "ValueError")
        ELSE draw_sprite_from(
                 draw_pixel(IF pixel = current_pixel THEN RegStore(s, 15, 1) ELSE s,
                            x_pos, y_pos, pixel),
                 num_of_bytes, k + 1)

draw_sprite(s) ==
    draw_sprite_from(RegStore(s, 15, 0),
                     IF s.mode = EXTENDED_MODE THEN 2 ELSE 1, 0)

(***************************************************************************)
(* The handlers of the leading-E group.  pressed is the set of CHIP-8 keys *)
(* that key.get_pressed() reports as held down.                            *)
(***************************************************************************)
\* the keys of Config.KEY_MAPPING
KEY_MAPPING == 0..15

\* 0xEX9E
skip_if_key_is_pressed(s, pressed) ==
    LET key_in_vx == s.v[OpX(s.opcode)]
    IN  IF key_in_vx \notin KEY_MAPPING THEN Raise(s, "KeyError")
        ELSE IF key_in_vx \in pressed THEN [s EXCEPT !.pc = s.pc + 2]
        ELSE s

\* 0xEXA1
skip_if_key_is_not_pressed(s, pressed) ==
    LET key_in_vx == s.v[OpX(s.opcode)]
    IN  IF key_in_vx \notin KEY_MAPPING THEN Raise(s, "KeyError")
        ELSE IF key_in_vx \notin pressed THEN [s EXCEPT !.pc = s.pc + 2]
        ELSE s

\* the keys of self.leading_e_opcodes_lookup
leading_e_opcodes_lookup == {158, 161}

execute_leading_e_opcodes(s, pressed) ==
    LET operation == OpNN(s.opcode)
    IN  CASE operation = 158 -> skip_if_key_is_pressed(s, pressed)
          [] operation = 161 -> skip_if_key_is_not_pressed(s, pressed)
          [] OTHER -> Raise(s, "KeyError")

\* the keys of self.leading_f_opcodes_lookup, a table execute_opcode never reads
leading_f_opcodes_lookup == {7, 10, 21, 24, 30, 41, 48, 51, 85, 101}

(***************************************************************************)
(* The handlers of the leading-F group that store to and load from memory. *)
(***************************************************************************)
\* whether an event ends the loop of 0xFX0A: a KEYDOWN while a mapped key
\* is held; pressed is the set of CHIP-8 keys key.get_pressed() reports
key_pressed(type, pressed) ==
    type = "KEYDOWN" /\ pressed \cap KEY_MAPPING # {}

\* one iteration of the loop of 0xFX0A on the event pygame.event.wait()
\* returned: Config.KEY_MAPPING is scanned in the order of its keys, and an
\* event of any other type is dropped
wait_for_keypress(s, type, pressed) ==
    IF key_pressed(type, pressed)
    THEN RegStore(s, OpX(s.opcode), MinOf(pressed \cap KEY_MAPPING))
    ELSE s

\* str(n) for n >= 0, as the sequence of its decimal digits
RECURSIVE Str(_)
Str(n) == IF n < 10 THEN <<n>> ELSE Str(n \div 10) \o <<n % 10>>

\* digits.zfill(width)
Zfill(digits, width) ==
    IF Len(digits) >= width THEN digits
    ELSE [k \in 1..(width - Len(digits)) |-> 0] \o digits

\* 0xFX33 with the digits stored least significant first
store_bcd_in_memory_reversed(s) ==
    LET value == Zfill(Str(s.v[OpX(s.opcode)]), 3)
        s1 == MemStore(s, s.i, value[3])
        s2 == Then(s1, LAMBDA t: MemStore(t, t.i + 1, value[2]))
    IN  Then(s2, LAMBDA t: MemStore(t, t.i + 2, value[1]))

\* 0xFX33
store_bcd_in_memory(s) ==
    LET value == Zfill(Str(s.v[OpX(s.opcode)]), 3)
        s1 == MemStore(s, s.i, value[1])
        s2 == Then(s1, LAMBDA t: MemStore(t, t.i + 1, value[2]))
    IN  Then(s2, LAMBDA t: MemStore(t, t.i + 2, value[3]))

\* the loop of 0xFX55 from its iteration k on
RECURSIVE store_registers_from(_, _)
store_registers_from(s, k) ==
    IF s.exc # "none" \/ k > OpX(s.opcode) THEN s
    ELSE store_registers_from(MemStore(s, s.i + k, s.v[k]), k + 1)

\* 0xFX55 over range(x), which leaves Vx out
store_registers_in_memory_exclusive(s) ==
    IF OpX(s.opcode) = 0 THEN s
    ELSE LET t == store_registers_from([s EXCEPT !.opcode = s.opcode - 256], 0)
         IN  [t EXCEPT !.opcode = s.opcode]

\* 0xFX55
store_registers_in_memory(s) == store_registers_from(s, 0)

\* the loop of 0xFX65 from its iteration k on
RECURSIVE read_registers_from(_, _)
read_registers_from(s, k) ==
    IF s.exc # "none" \/ k > OpX(s.opcode) THEN s
    ELSE IF PyIndex(s.i + k, MAX_MEMORY) = -1 THEN Raise(s, "IndexError")
    ELSE read_registers_from(
             RegStore(s, k, MemAt(s.memory, PyIndex(s.i + k, MAX_MEMORY))), k + 1)

\* 0xFX65
read_registers_from_memory(s) == read_registers_from(s, 0)

(***************************************************************************)
(* CPU.execute_opcode: fetch, advance pc, dispatch on the leading nibble.  *)
(* A KeyError raised by the lookup in self.opcode_lookup, or anywhere in   *)
(* the handler it calls, is replaced by UnknownInstructionException.       *)
(***************************************************************************)
\* the keys of self.opcode_lookup
opcode_lookup == 0..14

Dispatch(s, rnd, pressed) ==
    LET nibble == four_oldest_bits(s.opcode)
    IN  CASE nibble = 0 -> execute_leading_zero_opcodes(s)
          [] nibble = 1 -> jump_to_address(s)
          [] nibble = 2 -> jump_to_subroutine(s)
          [] nibble = 3 -> skip_if_register_equals_value(s)
          [] nibble = 4 -> skip_if_register_not_equals_value(s)
          [] nibble = 5 -> skip_if_register_equal_other_register(s)
          [] nibble = 6 -> move_value_to_register(s)
          [] nibble = 7 -> add_value_to_register(s)
          [] nibble = 8 -> execute_leading_eight_opcodes(s)
          [] nibble = 9 -> skip_if_register_not_equal_other_register(s)
          [] nibble = 10 -> move_value_to_index(s)
          [] nibble = 11 -> jump_to_address_plus_v_zero(s)
          [] nibble = 12 -> generate_random_number(s, rnd)
          [] nibble = 13 -> draw_sprite(s)
          [] nibble = 14 -> execute_leading_e_opcodes(s, pressed)
          [] OTHER -> Raise(s, "KeyError")

\* the fetch with the low byte first
FetchedOpcodeLowFirst(s) ==
    BitOr(Shl(MemAt(s.memory, PyIndex(s.pc + 1, MAX_MEMORY)), 8),
          MemAt(s.memory, PyIndex(s.pc, MAX_MEMORY)))

\* self.opcode = (self.memory[self.pc] << 8) | self.memory[self.pc + 1]
FetchedOpcode(s) ==
    BitOr(Shl(MemAt(s.memory, PyIndex(s.pc, MAX_MEMORY)), 8),
          MemAt(s.memory, PyIndex(s.pc + 1, MAX_MEMORY)))

execute_opcode(s, rnd, pressed) ==
    IF PyIndex(s.pc, MAX_MEMORY) = -1 \/ PyIndex(s.pc + 1, MAX_MEMORY) = -1
    THEN Raise(s, "IndexError")
    ELSE LET s1 == [s EXCEPT !.opcode = FetchedOpcode(s)]
             s2 == [s1 EXCEPT !.pc = s1.pc + 2]
             s3 == Dispatch(s2, rnd, pressed)
         IN  IF s3.exc = "KeyError"
             THEN [s3 EXCEPT !.exc = "UnknownInstructionException",
                             !.exc_opcode = s3.opcode]
             ELSE s3

(***************************************************************************)
(* The inputs explored.  A program is a sequence of opcodes, stored high   *)
(* byte first; a ROM file is its sequence of bytes.                        *)
(***************************************************************************)
RECURSIVE RomOf(_)
RomOf(words) ==
    IF words = <<>> THEN <<>>
    ELSE <<Head(words) \div 256, Head(words) % 256>> \o RomOf(Tail(words))

\* opcodes of the F group: every key of leading_f_opcodes_lookup, and two
\* low bytes that are no key, with the register fields 0, 7 and F
FOpcodes ==
    {61440 + 256 * x + low : x \in {0, 7, 15},
                             low \in leading_f_opcodes_lookup \cup {0, 255}}

\* opcodes of the groups 0 to E: 0000 00B1 00C1 00E0 00EE 00FB 00FC 00FD
\* 00FE 00FF; 1200 1204 1FFF; 2200 2202 2204 2ABC 2FFF; 3000 3001 4000 4001
\* 5010 9010; 600A 6105 60FF 6F80; 7001 70FF; 8010..8018 801E; A050 AFFF;
\* B200 BFFF; C0FF; D001 D012; E000 E09E E0A1
LowOpcodes ==
    {0, 177, 193, 224, 238, 251, 252, 253, 254, 255,
     4608, 4612, 8191,
     8704, 8706, 8708, 10940, 12287,
     12288, 12289, 16384, 16385, 20496, 36880,
     24586, 24837, 24831, 28544,
     28673, 28927,
     32784, 32785, 32786, 32787, 32788, 32789, 32790, 32791, 32792, 32798,
     41040, 45055,
     45568, 49151,
     49407,
     53249, 53266,
     57344, 57502, 57505}

\* the opcodes a two-opcode program starts with: 00E0 00EE 00FF; 2202 2204;
\* 3000; 600A 6105 60FF 6F80; AFFF; D001
FirstOpcodes ==
    {224, 238, 255, 8706, 8708, 12288, 24586, 24837, 24831, 28544, 45055, 53249}

\* programs that draw: a one-row sprite at (5, 0), the sprite being the
\* program's first byte: 6005 A200 D001; the specification's scenario, a row
\* 0xFF drawn at (0, 0) after 00E0, the sprite being the byte after the
\* program: 00E0 A206 D001 FFFF; a sprite drawn before a mode switch:
\* A200 D001 00FF; a sprite of two rows, 0x81 and 0xFF, drawn in normal
\* mode: A204 D002 81FF; and a sprite of two rows of two bytes, 0x80FF and
\* 0x0F01, drawn in extended mode: 00FF A206 D002 80FF 0F01
DrawPrograms ==
    {<<24581, 41472, 53249>>, <<224, 41478, 53249, 65535>>,
     <<41472, 53249, 255>>, <<41476, 53250, 33279>>,
     <<255, 41478, 53250, 33023, 3841>>}

\* a call over one opcode to a return: 2204 0000 00EE; the program of the
\* specification's scenario: 600A 6105 8014; and a sprite drawn twice, the
\* sprite being the program's first byte: A200 D001 D001
LongPrograms ==
    {<<8708, 0, 238>>, <<24586, 24837, 32788>>, <<41472, 53249, 53249>>} \cup DrawPrograms

\* the programs loaded at the default address
Programs ==
    {<<a>> : a \in LowOpcodes \cup FOpcodes}
        \cup {<<a, b>> : a \in FirstOpcodes, b \in LowOpcodes}
        \cup LongPrograms

\* a file loaded at STACK_POINTER - 2: a return address, low byte first, in
\* the two cells 00EE reads after reset, zeros up to the default address,
\* and a program there.  The addresses are 0x0202, 0x1234 and 0xFFFF; the
\* programs are 00EE; 00EE 00EE; 00EE 2200; 2202 00EE
StackImages == {<<2, 2>>, <<52, 18>>, <<255, 255>>}

StackPrograms == {<<238>>, <<238, 238>>, <<238, 8704>>, <<8706, 238>>}

Zeros(n) == [k \in 1..n |-> 0]

\* the <<file content, address>> pairs load_rom is called with; a file that
\* reaches past the end of memory is among them
RomLoads ==
    {<<RomOf(p), PROGRAM_COUNTER>> : p \in Programs}
        \cup {<<d \o Zeros(PROGRAM_COUNTER - STACK_POINTER) \o RomOf(p),
                STACK_POINTER - 2>> : d \in StackImages, p \in StackPrograms}
        \cup {<<RomOf(<<4608, 4608>>), MAX_MEMORY - 2>>}

\* the values of randint(0, 255) explored
RandomValues == {0, 165, 255}

\* the sets of held keys explored
PressedSets == {{}, {0}, {1, 15}}

(***************************************************************************)
(* The operations a client invokes.  As the driver does (PyCHIP8.__init__  *)
(* and PyCHIP8.run), the client resets the CPU before it executes opcodes  *)
(* before it executes opcodes, and loads one ROM file.  An exception that  *)
(* leaves load_rom, execute_opcode or a timer tick ends the run; only      *)
(* reset() is explored after it.                                           *)
(***************************************************************************)
LoadRom ==
    /\ exc = "none"
    /\ ~waiting
    /\ ~loaded
    /\ \E load \in RomLoads :
           /\ Becomes(load_rom(Cur, load[1], load[2]))
           /\ args' = load
    /\ last' = "load_rom"
    /\ loaded' = TRUE
    /\ UNCHANGED <<nsteps, waiting>>

\* open() finds no file: FileNotFoundError, nothing is copied
LoadRomMissing ==
    /\ exc = "none"
    /\ ~loaded
    /\ ~waiting
    /\ Becomes(Raise(Cur, "FileNotFoundError"))
    /\ last' = "load_rom"
    /\ args' = <<>>
    /\ loaded' = TRUE
    /\ UNCHANGED <<nsteps, waiting>>

\* the inputs the opcode at pc reads: a random byte (CXNN), the held keys
\* (EX9E, EXA1)
NextNibble ==
    IF pc >= 0 /\ pc + 1 < MAX_MEMORY THEN MemAt(memory, pc) \div 16 ELSE 0

ExecuteOpcodeWithin(bound) ==
    /\ exc = "none"
    /\ ~waiting
    /\ v # <<>>
    /\ nsteps < bound
    /\ \E rnd \in IF NextNibble = 12 THEN RandomValues ELSE {0},
          pressed \in IF NextNibble = 14 THEN PressedSets ELSE {{}} :
           Becomes(execute_opcode(Cur, rnd, pressed))
    /\ last' = "execute_opcode"
    /\ nsteps' = nsteps + 1
    /\ args' = <<>>
    /\ UNCHANGED <<loaded, waiting>>

ExecuteOpcode == ExecuteOpcodeWithin(MaxSteps)

Exit ==
    /\ exc = "none"
    /\ ~waiting
    /\ Becomes(exit(Cur))
    /\ last' = "exit"
    /\ args' = <<>>
    /\ UNCHANGED <<nsteps, loaded, waiting>>

Next ==
    \/ Reset
    \/ LoadRom
    \/ LoadRomMissing
    \/ ExecuteOpcode
    \/ DecrementTimers
    \/ Exit

Spec == Init /\ [][Next]_vars

(***************************************************************************)
(* The register instructions on chosen register contents.  A program sets  *)
(* Vx = a and Vy = b with 6XNN and then runs one instruction on them.      *)
(***************************************************************************)
\* the register contents and immediates explored
ArithValues == {0, 1, 15, 127, 128, 255}

\* the <<X, Y>> register fields explored: distinct, equal, Y = F and X = F
RegisterPairs == {<<0, 1>>, <<1, 0>>, <<3, 3>>, <<14, 15>>, <<15, 2>>}

\* the selectors of 8XY4, 8XY5, 8XY6, 8XY7 and 8XYE
ArithSelectors == {4, 5, 6, 7, 14}

\* the opcode with leading nibble g and the fields x, y, n
OpcodeOf(g, x, y, n) == 4096 * g + 256 * x + 16 * y + n

\* 6XNN, 6YNN, 8XYk
EightPrograms ==
    {<<OpcodeOf(6, r[1], 0, 0) + a, OpcodeOf(6, r[2], 0, 0) + b,
       OpcodeOf(8, r[1], r[2], k)>> :
         r \in RegisterPairs, a \in ArithValues, b \in ArithValues,
         k \in ArithSelectors}

\* 6XNN, then 7XNN, 3XNN or 4XNN
ImmediatePrograms ==
    {<<OpcodeOf(6, x, 0, 0) + a, OpcodeOf(g, x, 0, 0) + nn>> :
         x \in {0, 15}, a \in ArithValues, nn \in ArithValues, g \in {3, 4, 7}}

\* 6XNN, 6YNN, then 5XY0 or 9XY0
ComparePrograms ==
    {<<OpcodeOf(6, r[1], 0, 0) + a, OpcodeOf(6, r[2], 0, 0) + b,
       OpcodeOf(g, r[1], r[2], 0)>> :
         r \in RegisterPairs, a \in ArithValues, b \in ArithValues,
         g \in {5, 9}}

ArithPrograms == EightPrograms \cup ImmediatePrograms \cup ComparePrograms

LoadArithRom ==
    /\ exc = "none"
    /\ ~loaded
    /\ ~waiting
    /\ \E p \in ArithPrograms :
           /\ Becomes(load_rom(Cur, RomOf(p), PROGRAM_COUNTER))
           /\ args' = <<RomOf(p), PROGRAM_COUNTER>>
    /\ last' = "load_rom"
    /\ loaded' = TRUE
    /\ UNCHANGED <<nsteps, waiting>>

NextArith ==
    \/ Reset
    \/ LoadArithRom
    \/ ExecuteOpcode

SpecArith == Init /\ [][NextArith]_vars

(***************************************************************************)
(* Loading over a memory that is in use: files loaded one after another,   *)
(* at the default address and elsewhere, between the steps of a program.   *)
(***************************************************************************)
\* the <<file content, address>> pairs: 600A A123 and 1204 at 0x200; three
\* bytes at 0x201; one byte in the last cell; two bytes at 0; an empty file;
\* and a file that reaches past the end of memory
SmallRomLoads ==
    {<<RomOf(<<24586, 41251>>), PROGRAM_COUNTER>>,
     <<RomOf(<<4612>>), PROGRAM_COUNTER>>,
     <<<<1, 2, 3>>, PROGRAM_COUNTER + 1>>,
     <<<<255>>, MAX_MEMORY - 1>>,
     <<<<7, 7>>, 0>>,
     <<<<>>, PROGRAM_COUNTER>>,
     <<RomOf(<<4608, 4608>>), MAX_MEMORY - 2>>}

LoadSmallRom ==
    /\ exc = "none"
    /\ ~waiting
    /\ \E load \in SmallRomLoads :
           /\ Becomes(load_rom(Cur, load[1], load[2]))
           /\ args' = load
    /\ last' = "load_rom"
    /\ loaded' = TRUE
    /\ UNCHANGED <<nsteps, waiting>>

NextLoad ==
    \/ Reset
    \/ LoadSmallRom
    \/ ExecuteOpcode

SpecLoad == Init /\ [][NextLoad]_vars

(***************************************************************************)
(* Unwinding the stack.  Every 00EE lowers sp by 2 and nothing raises it,  *)
(* so a program that keeps returning brings sp from STACK_POINTER to 0 in  *)
(* STACK_POINTER / 2 steps.  The file is loaded at 0: the address 0x200,   *)
(* low byte first, in every pair of cells below STACK_POINTER, zeros up to *)
(* 0x200, and 00EE there.                                                  *)
(***************************************************************************)
RECURSIVE ReturnAddresses(_, _)
ReturnAddresses(address, n) ==
    IF n = 0 THEN <<>>
    ELSE <<address % 256, address \div 256>> \o ReturnAddresses(address, n - 1)

\* the unwinding file at 0, and BFFF at 0x200, which jumps to the last cell
UnwindLoads ==
    {<<ReturnAddresses(PROGRAM_COUNTER, STACK_POINTER \div 2)
           \o Zeros(PROGRAM_COUNTER - STACK_POINTER) \o RomOf(<<238>>), 0>>,
     <<RomOf(<<45055>>), PROGRAM_COUNTER>>}

LoadUnwindRom ==
    /\ exc = "none"
    /\ ~waiting
    /\ ~loaded
    /\ \E load \in UnwindLoads :
           /\ Becomes(load_rom(Cur, load[1], load[2]))
           /\ args' = load
    /\ last' = "load_rom"
    /\ loaded' = TRUE
    /\ UNCHANGED <<nsteps, waiting>>

ExecuteOpcodeUnwinding == ExecuteOpcodeWithin(MaxUnwindSteps)

NextUnwind ==
    \/ Reset
    \/ LoadUnwindRom
    \/ ExecuteOpcodeUnwinding

SpecUnwind == Init /\ [][NextUnwind]_vars

(***************************************************************************)
(* Calls and returns that match.  Programs in which every 00EE follows a   *)
(* 2NNN that is still outstanding: five nested calls; a call to a return   *)
(* at the default address alone; and calls and returns in turn.  2NNN      *)
(* leaves sp as it is and 00EE lowers it, so the file of the last program  *)
(* is loaded at STACK_POINTER - 4 and begins with the addresses the        *)
(* returns read, low byte first: 0x020A at 0x4E and 0x0206 at 0x50.        *)
(***************************************************************************)
\* 2202 2204 2206 2208 220A; 2204 0000 00EE; and, behind the addresses,
\* 2204 0000 00EE 2208 00EE 220C
CallLoads ==
    {<<RomOf(<<8706, 8708, 8710, 8712, 8714>>), PROGRAM_COUNTER>>,
     <<RomOf(<<8708, 0, 238>>), PROGRAM_COUNTER>>,
     <<<<10, 2, 6, 2>> \o Zeros(PROGRAM_COUNTER - STACK_POINTER)
           \o RomOf(<<8708, 0, 238, 8712, 238, 8716>>), STACK_POINTER - 4>>}

LoadCallRom ==
    /\ exc = "none"
    /\ ~waiting
    /\ ~loaded
    /\ \E load \in CallLoads :
           /\ Becomes(load_rom(Cur, load[1], load[2]))
           /\ args' = load
    /\ last' = "load_rom"
    /\ loaded' = TRUE
    /\ UNCHANGED <<nsteps, waiting>>

ExecuteOpcodeCalling == ExecuteOpcodeWithin(MaxCallSteps)

NextCalls ==
    \/ Reset
    \/ LoadCallRom
    \/ ExecuteOpcodeCalling

SpecCalls == Init /\ [][NextCalls]_vars

(***************************************************************************)
(* The timers.  No opcode execute_opcode dispatches writes a timer, so the *)
(* timers are set as the tests set them: the client assigns the fields.    *)
(***************************************************************************)
TimerValues == 0..MaxTimer

\* cpu.timer_dt = dt; cpu.timer_st = st
SetTimers ==
    /\ exc = "none"
    /\ ~waiting
    /\ \E dt \in TimerValues, st \in TimerValues :
           Becomes([Cur EXCEPT !.timer_dt = dt, !.timer_st = st])
    /\ last' = "set_timers"
    /\ args' = <<>>
    /\ UNCHANGED <<nsteps, loaded, waiting>>

NextTimers ==
    \/ Reset
    \/ SetTimers
    \/ DecrementTimers

SpecTimers == Init /\ [][NextTimers]_vars

(***************************************************************************)
(* The handlers of the F group called as the tests call them: the client   *)
(* assigns cpu.i and the registers, sets cpu.opcode and calls the handler. *)
(* execute_opcode dispatches no opcode to these handlers.                  *)
(***************************************************************************)
\* the values assigned to cpu.i: the middle of memory, and the address
\* whose third cell is the last cell of memory
IndexValues == {768, MAX_MEMORY - 3}

\* the register contents assigned, V0 first
RegisterFiles ==
    {<<255, 1, 109, 3, 4, 5, 6, 7, 8, 9, 10, 11, 12, 13, 14, 7>>,
     <<0, 200, 90, 33, 44, 55, 66, 77, 88, 99, 110, 121, 132, 143, 154, 165>>}

\* the X fields of the opcodes set
HandlerRegisters == {0, 2, 15}

\* cpu.i = index
AssignIndex ==
    /\ exc = "none"
    /\ ~waiting
    /\ \E index \in IndexValues : Becomes([Cur EXCEPT !.i = index])
    /\ last' = "assign_i"
    /\ args' = <<>>
    /\ UNCHANGED <<nsteps, loaded, waiting>>

\* cpu.v[r] = value for every r
AssignRegisters ==
    /\ exc = "none"
    /\ ~waiting
    /\ v # <<>>
    /\ \E file \in RegisterFiles :
           Becomes([Cur EXCEPT !.v = [r \in 0..(NUMBER_OF_REGISTERS - 1) |->
                                          file[r + 1]]])
    /\ last' = "assign_v"
    /\ args' = <<>>
    /\ UNCHANGED <<nsteps, loaded, waiting>>

\* the guard of a direct call of a handler
MayCall ==
    /\ exc = "none"
    /\ ~waiting
    /\ v # <<>>
    /\ nsteps < MaxCalls

\* cpu.opcode = 0xFX33; cpu.store_bcd_in_memory()
CallStoreBcd ==
    /\ MayCall
    /\ \E x \in HandlerRegisters :
           Becomes(store_bcd_in_memory(
                       [Cur EXCEPT !.opcode = OpcodeOf(15, x, 3, 3)]))
    /\ last' = "store_bcd_in_memory"
    /\ nsteps' = nsteps + 1
    /\ args' = <<>>
    /\ UNCHANGED <<loaded, waiting>>

\* cpu.opcode = 0xFX55; cpu.store_registers_in_memory()
CallStoreRegisters ==
    /\ MayCall
    /\ \E x \in HandlerRegisters :
           Becomes(store_registers_in_memory(
                       [Cur EXCEPT !.opcode = OpcodeOf(15, x, 5, 5)]))
    /\ last' = "store_registers_in_memory"
    /\ nsteps' = nsteps + 1
    /\ args' = <<>>
    /\ UNCHANGED <<loaded, waiting>>

\* cpu.opcode = 0xFX65; cpu.read_registers_from_memory()
CallReadRegisters ==
    /\ MayCall
    /\ \E x \in HandlerRegisters :
           Becomes(read_registers_from_memory(
                       [Cur EXCEPT !.opcode = OpcodeOf(15, x, 6, 5)]))
    /\ last' = "read_registers_from_memory"
    /\ nsteps' = nsteps + 1
    /\ args' = <<>>
    /\ UNCHANGED <<loaded, waiting>>

(***************************************************************************)
(* wait_for_keypress, called directly.  The call enters the loop; while    *)
(* the CPU is in the loop every event of the pygame queue is taken by the  *)
(* loop's pygame.event.wait(): key events, the quit request, and the timer *)
(* event that PyCHIP8.run schedules with pygame.time.set_timer.            *)
(***************************************************************************)
\* cpu.opcode = 0xFX0A; cpu.wait_for_keypress()
CallWaitForKeypress ==
    /\ MayCall
    /\ \E x \in HandlerRegisters :
           Becomes([Cur EXCEPT !.opcode = OpcodeOf(15, x, 0, 10)])
    /\ waiting' = TRUE
    /\ last' = "wait_for_keypress"
    /\ nsteps' = nsteps + 1
    /\ args' = <<>>
    /\ UNCHANGED loaded

\* the loop takes the event of the given type
WaitTakes(type, pressed) ==
    /\ waiting
    /\ Becomes(wait_for_keypress(Cur, type, pressed))
    /\ waiting' = ~key_pressed(type, pressed)
    /\ last' = type
    /\ args' = IF type = "KEYDOWN" THEN <<pressed>> ELSE <<>>
    /\ UNCHANGED <<nsteps, loaded>>

KeyDownEvent == \E pressed \in PressedSets : WaitTakes("KEYDOWN", pressed)

QuitEvent == WaitTakes("QUIT", {})

TimerEvent == WaitTakes("USEREVENT", {})

NextWait ==
    \/ Reset
    \/ SetTimers
    \/ CallWaitForKeypress
    \/ KeyDownEvent
    \/ QuitEvent
    \/ TimerEvent

\* the timer event keeps arriving and the loop keeps taking it
SpecWait == Init /\ [][NextWait]_vars /\ WF_vars(TimerEvent)

NextHandlers ==
    \/ Reset
    \/ AssignIndex
    \/ AssignRegisters
    \/ CallStoreBcd
    \/ CallStoreRegisters
    \/ CallReadRegisters

SpecHandlers == Init /\ [][NextHandlers]_vars

(***************************************************************************)
(* Properties.                                                             *)
(***************************************************************************)
\* a step of execute_opcode whose fetch is served: pc and pc + 1 are cells
Fetches == nsteps' = nsteps + 1 /\ pc >= 0 /\ pc + 1 < MAX_MEMORY

\* the handlers that may write pc: 1NNN, 2NNN, BNNN, 00EE and the skips
MayWritePc(op) ==
    \/ four_oldest_bits(op) \in {1, 2, 3, 4, 5, 9, 11, 14}
    \/ four_oldest_bits(op) = 0 /\ OpNN(op) = 238

\* the skips, which add 2 to pc or leave it
IsSkip(op) == four_oldest_bits(op) \in {3, 4, 5, 9, 14}

\* C1: a step fetches opcode = memory[pc] * 256 + memory[pc + 1] and has
\* advanced pc by 2 when the handler runs: a handler that does not write pc
\* leaves pc = old pc + 2 (also when it raises), and a skip leaves old pc + 2
\* or old pc + 4.
C1_FetchAdvancesPc ==
    [][Fetches =>
          /\ opcode' = MemAt(memory, pc) * 256 + MemAt(memory, pc + 1)
          /\ ~MayWritePc(opcode') => pc' = pc + 2
          /\ IsSkip(opcode') => pc' \in {pc + 2, pc + 4}]_vars

\* C1 witness: 600A (bytes 0x60, 0x0A) was fetched at 0x200 and executed
C1_Witness ==
    /\ last = "execute_opcode"
    /\ exc = "none"
    /\ opcode = 24586
    /\ pc = PROGRAM_COUNTER + 2
    /\ v[0] = 10

\* an opcode no table registers: the sub-selector is no key of its group's
\* table (00BN and 00CN are served ahead of the leading-zero table)
NoHandler(op) ==
    \/ four_oldest_bits(op) = 0
           /\ OpNN(op) \notin leading_zero_opcodes_lookup
           /\ BitAnd(op, 240) \notin {176, 192}
    \/ four_oldest_bits(op) = 8 /\ OpN(op) \notin leading_eight_opcodes_lookup
    \/ four_oldest_bits(op) = 14 /\ OpNN(op) \notin leading_e_opcodes_lookup
    \/ four_oldest_bits(op) = 15 /\ OpNN(op) \notin leading_f_opcodes_lookup

\* C2: a step on an opcode with no registered handler ends in
\* UnknownInstructionException carrying the opcode, with pc advanced by 2.
C2_UnknownInstruction ==
    [][(Fetches /\ NoHandler(opcode')) =>
          /\ exc' = "UnknownInstructionException"
          /\ exc_opcode' = opcode'
          /\ pc' = pc + 2]_vars

\* C2 witness: FFFF was fetched at 0x200 and raised, carrying 0xFFFF
C2_Witness ==
    /\ last = "execute_opcode"
    /\ opcode = 65535
    /\ exc = "UnknownInstructionException"
    /\ exc_opcode = 65535
    /\ pc = PROGRAM_COUNTER + 2

\* C3: a step on an opcode of the F table (FX07 .. FX65) does not end in
\* an unknown-instruction error.
C3_FGroupDispatched ==
    (/\ last = "execute_opcode"
     /\ four_oldest_bits(opcode) = 15
     /\ OpNN(opcode) \in leading_f_opcodes_lookup)
        => exc # "UnknownInstructionException"

\* C4: reset() leaves V0..VF = 0, DT = 0, ST = 0, I = 0, PC = 0x200 and
\* SP = 0x52, whatever the state before.
C4_ResetState ==
    last = "reset" =>
        /\ v = [r \in 0..15 |-> 0]
        /\ timer_dt = 0
        /\ timer_st = 0
        /\ i = 0
        /\ pc = 512
        /\ sp = 82

\* C4 witness: a reset after three opcodes were executed
C4_Witness == last = "reset" /\ nsteps = MaxSteps /\ opcode # 0

\* the hex-digit font the tests expect in memory[0..79]
Fontset ==
    <<240, 144, 144, 144, 240,   32, 96, 32, 32, 112,
      240, 16, 240, 128, 240,    240, 16, 240, 16, 240,
      144, 144, 240, 16, 16,     240, 128, 240, 16, 240,
      240, 128, 240, 144, 240,   240, 16, 32, 64, 64,
      240, 144, 240, 144, 240,   240, 144, 240, 16, 240,
      240, 144, 240, 144, 144,   224, 144, 224, 144, 224,
      240, 128, 128, 128, 240,   224, 144, 144, 144, 224,
      240, 128, 240, 128, 240,   240, 128, 240, 128, 128>>

\* C5: after reset() on a newly constructed CPU, memory[0..79] is the font
\* table and every cell from 80 on is 0.
C5_FontAfterReset ==
    (last = "reset" /\ ~loaded /\ nsteps = 0) =>
        /\ \A a \in 0..(Len(Fontset) - 1) : MemAt(memory, a) = Fontset[a + 1]
        /\ \A a \in Len(Fontset)..(MAX_MEMORY - 1) : MemAt(memory, a) = 0

\* C6: a constructed CPU is running until exit() is called, and not
\* running after it.
C6_RunningUntilExit ==
    /\ last = "construct" => running = TRUE
    /\ last = "exit" => running = FALSE

\* C8: 2NNN with return address P (the pc after the fetch) and stack
\* pointer S stores P low byte first at memory[S], memory[S + 1], sets
\* SP = S + 2 and PC = NNN.
C8_CallPushes ==
    [][(/\ Fetches
        /\ four_oldest_bits(opcode') = 2
        /\ OpNNN(opcode') >= 512
        /\ sp >= 0 /\ sp + 1 < MAX_MEMORY) =>
          /\ MemAt(memory', sp) = (pc + 2) % 256
          /\ MemAt(memory', sp + 1) = (pc + 2) \div 256
          /\ sp' = sp + 2
          /\ pc' = OpNNN(opcode')]_vars

C10_CallThenReturn ==
    (/\ last = "execute_opcode"
     /\ nsteps = 2
     /\ exc = "none"
     /\ opcode = 238
     /\ MemAt(memory, PROGRAM_COUNTER) \div 16 = 2
     /\ MemAt(memory, PROGRAM_COUNTER) % 16 >= 2) =>
        /\ pc = PROGRAM_COUNTER + 2
        /\ sp = STACK_POINTER

(***************************************************************************)
(* The register instructions.  In a step of execute_opcode, opcode' is the *)
(* opcode fetched, and v the registers the handler found.                  *)
(***************************************************************************)
\* a step on 8XYk
EightStep(k) ==
    Fetches /\ four_oldest_bits(opcode') = 8 /\ OpN(opcode') = k

\* what 8XY4 leaves: Vx = (Vx + Vy) mod 256 and VF = the carry
AddLeaves ==
    LET x == OpX(opcode')
        y == OpY(opcode')
    IN  /\ exc' = "none"
        /\ v'[x] = (v[x] + v[y]) % 256
        /\ v'[15] = IF v[x] + v[y] > 255 THEN 1 ELSE 0

\* C11 (as amended): 8XY4 with X in 0..E, Vx = a and Vy = b leaves
\* Vx = (a + b) mod 256 and VF = 1 if a + b > 255, otherwise VF = 0.
C11_AddCarry == [][(EightStep(4) /\ OpX(opcode') # 15) => AddLeaves]_vars

\* C11 (as stated): the same for every register index X, VF included.
C11_AddCarryAnyRegister == [][EightStep(4) => AddLeaves]_vars

\* C11 witness: 60FF 6101 8014 was executed: 255 + 1 left V0 = 0 and VF = 1
C11_Witness ==
    /\ last = "execute_opcode"
    /\ exc = "none"
    /\ opcode = 32788
    /\ pc = PROGRAM_COUNTER + 6
    /\ v[0] = 0
    /\ v[1] = 1
    /\ v[15] = 1

\* C12: 8XY5 with Vx = a and Vy = b (X in 0..E) completes without error and
\* leaves Vx = (a - b) mod 256 and VF = 1 if a >= b, otherwise VF = 0.
C12_SubtractBorrow ==
    [][(EightStep(5) /\ OpX(opcode') # 15) =>
          LET x == OpX(opcode')
              y == OpY(opcode')
          IN  /\ exc' = "none"
              /\ v'[x] = (v[x] + 256 - v[y]) % 256
              /\ v'[15] = IF v[x] >= v[y] THEN 1 ELSE 0]_vars

\* C13: 8XY7 with Vx = a and Vy = b (X in 0..E) completes without error and
\* leaves Vx = (b - a) mod 256 and VF = 1 if b >= a, otherwise VF = 0.
C13_NegativeSubtractBorrow ==
    [][(EightStep(7) /\ OpX(opcode') # 15) =>
          LET x == OpX(opcode')
              y == OpY(opcode')
          IN  /\ exc' = "none"
              /\ v'[x] = (v[y] + 256 - v[x]) % 256
              /\ v'[15] = IF v[y] >= v[x] THEN 1 ELSE 0]_vars

\* C14: 8XY6 with X in 0..E and Vx = v leaves VF = v & 1 and Vx = v >> 1,
\* and leaves Vy as it was when Y is neither X nor F.
C14_ShiftRight ==
    [][(EightStep(6) /\ OpX(opcode') # 15) =>
          LET x == OpX(opcode')
              y == OpY(opcode')
          IN  /\ exc' = "none"
              /\ v'[15] = v[x] % 2
              /\ v'[x] = v[x] \div 2
              /\ y \notin {x, 15} => v'[y] = v[y]]_vars

\* C14 witness: 60FF 6101 8016 was executed: V0 = 127, VF = 1, V1 still 1
C14_Witness ==
    /\ last = "execute_opcode"
    /\ exc = "none"
    /\ opcode = 32790
    /\ pc = PROGRAM_COUNTER + 6
    /\ v[0] = 127
    /\ v[1] = 1
    /\ v[15] = 1

\* C15: 8XYE with X in 0..E and Vx = v completes without error and leaves
\* VF = (v >> 7) & 1 and Vx = (v << 1) mod 256.
C15_ShiftLeft ==
    [][(EightStep(14) /\ OpX(opcode') # 15) =>
          LET x == OpX(opcode')
          IN  /\ exc' = "none"
              /\ v'[15] = (v[x] \div 128) % 2
              /\ v'[x] = (2 * v[x]) % 256]_vars

\* C16: 7XNN with Vx = v completes without error and leaves
\* Vx = (v + NN) mod 256, and VF as it was when X is not F.
C16_AddImmediateWraps ==
    [][(Fetches /\ four_oldest_bits(opcode') = 7) =>
          LET x == OpX(opcode')
          IN  /\ exc' = "none"
              /\ v'[x] = (v[x] + OpNN(opcode')) % 256
              /\ x # 15 => v'[15] = v[15]]_vars

\* the register-arithmetic instructions: 6XNN, 7XNN, 8XY0..8XY7, 8XYE, CXNN
IsRegisterArithmetic(op) ==
    \/ four_oldest_bits(op) \in {6, 7, 12}
    \/ four_oldest_bits(op) = 8 /\ OpN(op) \in leading_eight_opcodes_lookup

\* C17: after reset every register holds a value in 0..255 at all times,
\* and no step on a register-arithmetic instruction ends with an error.
C17_ArithmeticNeverErrors ==
    [][/\ v' # <<>> => \A r \in 0..15 : v'[r] \in 0..255
       /\ (Fetches /\ IsRegisterArithmetic(opcode')) => exc' = "none"]_vars

\* the condition a conditional-skip opcode tests on the registers r
SkipCondition(op, r) ==
    CASE four_oldest_bits(op) = 3 -> r[OpX(op)] = OpNN(op)
      [] four_oldest_bits(op) = 4 -> r[OpX(op)] # OpNN(op)
      [] four_oldest_bits(op) = 5 -> r[OpX(op)] = r[OpY(op)]
      [] four_oldest_bits(op) = 9 -> r[OpX(op)] # r[OpY(op)]
      [] OTHER -> FALSE

\* the opcodes 3XNN, 4XNN, 5XY0 and 9XY0
IsConditionalSkip(op) ==
    \/ four_oldest_bits(op) \in {3, 4}
    \/ four_oldest_bits(op) \in {5, 9} /\ OpN(op) = 0

C19_TimerTick ==
    [][last' = "decrement_values_in_timers" =>
          /\ timer_dt' = IF timer_dt > 0 THEN timer_dt - 1 ELSE 0
          /\ timer_st' = IF timer_st > 0 THEN timer_st - 1 ELSE 0
          /\ timer_dt' >= 0
          /\ timer_st' >= 0
          /\ UNCHANGED <<memory, v, pc, sp, i, running, mode, opcode,
                         screen_mode, surface>>]_vars

\* C19 witness: a tick lowered DT from MaxTimer while ST was 0 and stayed 0
C19_Witness ==
    /\ last = "decrement_values_in_timers"
    /\ timer_dt = MaxTimer - 1
    /\ timer_st = 0

\* the rows of the sprite a DXYN reads in normal mode hold a set bit
SpriteHasSetBit ==
    \E r \in 0..(OpN(opcode) - 1) : MemAt(memory, i + r) # 0

\* C20: the same DXYN executed twice in a row restores the bitmap to what
\* it was before the first draw, and the second draw leaves VF = 1 when the
\* first set a pixel.  Stated for a program ANNN DXYN DXYN run after reset,
\* where the bitmap before the first draw is the cleared screen.
C20_DrawTwiceRestores ==
    (/\ last = "execute_opcode"
     /\ nsteps = 3
     /\ pc = PROGRAM_COUNTER + 6
     /\ MemAt(memory, PROGRAM_COUNTER) \div 16 = 10
     /\ MemAt(memory, PROGRAM_COUNTER + 2) \div 16 = 13
     /\ MemAt(memory, PROGRAM_COUNTER + 4) = MemAt(memory, PROGRAM_COUNTER + 2)
     /\ MemAt(memory, PROGRAM_COUNTER + 5) = MemAt(memory, PROGRAM_COUNTER + 3)) =>
        /\ surface = {}
        /\ SpriteHasSetBit => v[15] = 1

(***************************************************************************)
(* The display.                                                            *)
(***************************************************************************)
\* a step on DXYN
DrawStep == Fetches /\ four_oldest_bits(opcode') = 13

\* C21: DXYN XORs the sprite onto the display and leaves VF = 1 exactly when
\* a pixel that was 1 was turned to 0; stated for its consequence on a
\* cleared display, where no pixel is 1: the draw leaves VF = 0.
C21_DrawOnClearedLeavesVF0 ==
    [][(DrawStep /\ surface = {}) => v'[15] = 0]_vars

\* the cells a sprite of the rows memory[I..I+N-1] sets when it is drawn on
\* a cleared display in normal mode with its top-left corner at (Vx, Vy)
SpriteCellsAtRegisters(op) ==
    {<<(v[OpX(op)] + k) % SCREEN_WIDTH_NORMAL,
       (v[OpY(op)] + r) % SCREEN_HEIGHT_NORMAL>> :
         <<r, k>> \in {<<r, k>> \in (0..(OpN(op) - 1)) \X (0..7) :
                          Shr(MemAt(memory, i + r), 7 - k) % 2 = 1}}

\* C22: DXYN draws bit k of row r at column (Vx + k) mod 64 and row
\* (Vy + r) mod 32 in normal mode, without error; stated for a draw on a
\* cleared display whose sprite rows lie inside memory.
C22_DrawAtRegisterCoordinates ==
    [][(/\ DrawStep
        /\ mode = NORMAL_MODE
        /\ surface = {}
        /\ i + OpN(opcode') <= MAX_MEMORY) =>
          /\ exc' = "none"
          /\ surface' = SpriteCellsAtRegisters(opcode')]_vars

\* C23: after 00FF the mode is EXTENDED and the display is 128 x 64 with
\* every pixel 0; after 00FE the mode is NORMAL and the display is 64 x 32
\* with every pixel 0.
C23_ModeSwitchResizesAndClears ==
    /\ (last = "execute_opcode" /\ exc = "none" /\ opcode = 255) =>
          /\ mode = EXTENDED_MODE
          /\ screen_width = SCREEN_WIDTH_EXTENDED * scale
          /\ screen_height = SCREEN_HEIGHT_EXTENDED * scale
          /\ surface = {}
    /\ (last = "execute_opcode" /\ exc = "none" /\ opcode = 254) =>
          /\ mode = NORMAL_MODE
          /\ screen_width = SCREEN_WIDTH_NORMAL * scale
          /\ screen_height = SCREEN_HEIGHT_NORMAL * scale
          /\ surface = {}

\* C30: a step on 00BN or 00CN scrolls and completes normally; it does not
\* end in an unknown-instruction error, nor in any other.
C30_ScrollCompletes ==
    [][(Fetches /\ opcode' \in 176..207) => exc' = "none"]_vars

\* C24: load_rom with the bytes b[0..n-1] and the address a, a + n <= 4096,
\* leaves memory[a + k] = b[k] for every k in 0..n-1 and changes no other
\* memory cell and no register, PC, SP, I or timer.
C24_LoadRomCopies ==
    [][(/\ last' = "load_rom"
        /\ args' # <<>>
        /\ args'[2] >= 0
        /\ args'[2] + Len(args'[1]) <= MAX_MEMORY) =>
          LET b == args'[1]
              a == args'[2]
              written == a..(a + Len(b) - 1)
          IN  /\ exc' = "none"
              /\ \A k \in 0..(Len(b) - 1) : MemAt(memory', a + k) = b[k + 1]
              /\ \A c \in ((DOMAIN memory) \cup (DOMAIN memory')) \ written :
                     MemAt(memory', c) = MemAt(memory, c)
              /\ UNCHANGED <<v, pc, sp, i, timer_dt, timer_st>>]_vars

\* C24 witness: the bytes 1, 2, 3 were loaded at 0x201 over the program
\* 600A A123 after it ran; the program's first byte and V0 = 10 are kept
C24_Witness ==
    /\ last = "load_rom"
    /\ exc = "none"
    /\ args = <<<<1, 2, 3>>, PROGRAM_COUNTER + 1>>
    /\ MemAt(memory, PROGRAM_COUNTER) = 96
    /\ MemAt(memory, PROGRAM_COUNTER + 1) = 1
    /\ MemAt(memory, PROGRAM_COUNTER + 2) = 2
    /\ MemAt(memory, PROGRAM_COUNTER + 3) = 3
    /\ v # <<>>
    /\ v[0] = 10
    /\ i = 291

\* C25: a step whose access falls outside 0..4095 ends in an error and is
\* not served from another cell: a fetch at a pc with pc + 1 > 4095, and a
\* 00EE executed with sp < 2, which reads memory[sp - 2] and memory[sp - 1].
C25_OutOfRangeAccessFails ==
    [][/\ (nsteps' = nsteps + 1 /\ (pc < 0 \/ pc + 1 >= MAX_MEMORY)) =>
              exc' # "none"
       /\ (Fetches /\ opcode' = 238 /\ sp < 2) => exc' # "none"]_vars

(***************************************************************************)
(* The handlers of the F group, called directly.                           *)
(***************************************************************************)
\* a direct call of the handler named h
CallOf(h) == nsteps' = nsteps + 1 /\ last' = h

\* every memory cell outside the cells a..b is as it was
MemoryKeptOutside(a, b) ==
    \A c \in ((DOMAIN memory) \cup (DOMAIN memory')) \ (a..b) :
        MemAt(memory', c) = MemAt(memory, c)

\* C28: FX33 with Vx = v and I + 2 <= 4095 leaves memory[I] = v div 100,
\* memory[I + 1] = (v div 10) mod 10 and memory[I + 2] = v mod 10, and
\* leaves I, every register and every other memory cell as they were.
C28_StoreBcd ==
    [][(CallOf("store_bcd_in_memory") /\ i + 2 <= MAX_MEMORY - 1) =>
          LET value == v[OpX(opcode')]
          IN  /\ exc' = "none"
              /\ MemAt(memory', i) = value \div 100
              /\ MemAt(memory', i + 1) = (value \div 10) % 10
              /\ MemAt(memory', i + 2) = value % 10
              /\ MemoryKeptOutside(i, i + 2)
              /\ i' = i
              /\ v' = v]_vars

\* C28 witness: FX33 with X = 2, V2 = 109 and I = 4093 stored 1, 0, 9 in
\* the last three cells of memory
C28_Witness ==
    /\ last = "store_bcd_in_memory"
    /\ exc = "none"
    /\ OpX(opcode) = 2
    /\ v[2] = 109
    /\ i = MAX_MEMORY - 3
    /\ MemAt(memory, MAX_MEMORY - 3) = 1
    /\ MemAt(memory, MAX_MEMORY - 2) = 0
    /\ MemAt(memory, MAX_MEMORY - 1) = 9

\* C29: with I + X <= 4095, FX55 copies V0..Vx to memory[I..I+X] and
\* changes no register, I or other memory cell, and FX65 copies
\* memory[I..I+X] to V0..Vx and changes no memory cell, I or register above
\* Vx; so a FX65 after a FX55 brings V0..Vx back.
C29_StoreAndReadRegisters ==
    [][/\ (CallOf("store_registers_in_memory")
              /\ i + OpX(opcode') <= MAX_MEMORY - 1) =>
             LET x == OpX(opcode')
             IN  /\ exc' = "none"
                 /\ \A k \in 0..x : MemAt(memory', i + k) = v[k]
                 /\ MemoryKeptOutside(i, i + x)
                 /\ i' = i
                 /\ v' = v
       /\ (CallOf("read_registers_from_memory")
              /\ i + OpX(opcode') <= MAX_MEMORY - 1) =>
             LET x == OpX(opcode')
             IN  /\ exc' = "none"
                 /\ \A k \in 0..x : v'[k] = MemAt(memory, i + k)
                 /\ \A k \in (x + 1)..15 : v'[k] = v[k]
                 /\ i' = i
                 /\ memory' = memory]_vars

\* C29 witness: V0..V2 = 255, 1, 109 were stored at 768, the registers were
\* assigned other values, and FX65 with X = 2 brought V0..V2 back and left
\* V3 = 33 as assigned
C29_Witness ==
    /\ last = "read_registers_from_memory"
    /\ exc = "none"
    /\ OpX(opcode) = 2
    /\ i = 768
    /\ v[0] = 255
    /\ v[1] = 1
    /\ v[2] = 109
    /\ v[3] = 33
    /\ MemAt(memory, 770) = 109

\* C26: a quit requested while FX0A waits leads to a halt: the wait ends
\* with running false, and the interpreter does not wait on for a key.
C26_QuitEndsWait ==
    (waiting /\ last = "QUIT") ~> (~waiting /\ ~running)

\* C27: while FX0A waits, every timer tick lowers a non-zero DT and a
\* non-zero ST by 1, and a KEYDOWN with a mapped key held ends the wait
\* with Vx = the value of a key that is held.
C27_WaitKeepsTimersTicking ==
    [][/\ (waiting /\ last' = "USEREVENT") =>
             /\ timer_dt' = IF timer_dt > 0 THEN timer_dt - 1 ELSE 0
             /\ timer_st' = IF timer_st > 0 THEN timer_st - 1 ELSE 0
       /\ (waiting /\ last' = "KEYDOWN" /\ args'[1] # {}) =>
             /\ ~waiting'
             /\ v'[OpX(opcode)] \in args'[1]]_vars

(***************************************************************************)
(* The stack of return addresses.                                          *)
(***************************************************************************)
\* the opcode stored at address a, high byte first
WordAt(a) == MemAt(memory, a) * 256 + MemAt(memory, a + 1)

\* C31: after calls and returns from reset SP = STACK_POINTER + 2 * (calls
\* executed - returns executed).  Stated for the first opcodes executed:
\* one call of any target leaves SP = STACK_POINTER + 2, and the two nested
\* calls 2202 (at 0x200) and 2204 (at 0x202) leave SP = STACK_POINTER + 4.
C31_StackPointerCountsCalls ==
    /\ (/\ last = "execute_opcode"
        /\ exc = "none"
        /\ nsteps = 1
        /\ four_oldest_bits(opcode) = 2) => sp = STACK_POINTER + 2
    /\ (/\ last = "execute_opcode"
        /\ exc = "none"
        /\ nsteps = 2
        /\ WordAt(PROGRAM_COUNTER) = 8706
        /\ opcode = 8708
        /\ pc = PROGRAM_COUNTER + 4) => sp = STACK_POINTER + 4

\* C32: in a run of matching calls and returns every memory cell a 2NNN
\* step writes has an address in STACK_POINTER .. PROGRAM_COUNTER - 1: no
\* cell below STACK_POINTER and no cell of the program changes in the step.
C32_CallsWriteStackOnly ==
    [][(Fetches /\ four_oldest_bits(opcode') = 2) =>
          \A a \in (DOMAIN memory) \cup (DOMAIN memory') :
              MemAt(memory', a) # MemAt(memory, a) =>
                  a >= STACK_POINTER /\ a < PROGRAM_COUNTER]_vars

(***************************************************************************)
(* The bytes of a sprite.                                                  *)
(***************************************************************************)
\* the bytes of a sprite row: 1 in NORMAL mode, 2 in EXTENDED mode
RowBytes == IF mode = EXTENDED_MODE THEN 2 ELSE 1

\* the cells set by a sprite of OpN(op) rows drawn at (0, 0) on a cleared
\* display when byte b of row r is memory[I + r * RowBytes + b]
SpriteCellsOfRows(op) ==
    {<<8 * c[2] + c[3], c[1]>> :
         c \in {c \in (0..(OpN(op) - 1)) \X (0..(RowBytes - 1)) \X (0..7) :
                   Shr(MemAt(memory, i + c[1] * RowBytes + c[2]), 7 - c[3]) % 2 = 1}}

\* C33: DXYN takes byte b of row r from memory[I + r * width + b], width 1
\* in NORMAL and 2 in EXTENDED mode, and leaves I and memory unchanged.
\* Stated for D00N with V0 = 0 on a cleared display, where the register
\* numbers and the register values name the same corner (0, 0): the draw
\* completes and lights exactly the cells of the set bits of those bytes.
C33_SpriteBytesPerRow ==
    [][(/\ DrawStep
        /\ OpX(opcode') = 0
        /\ OpY(opcode') = 0
        /\ v[0] = 0
        /\ surface = {}
        /\ i + OpN(opcode') * RowBytes <= MAX_MEMORY) =>
          /\ exc' = "none"
          /\ i' = i
          /\ memory' = memory
          /\ surface' = SpriteCellsOfRows(opcode')]_vars

(***************************************************************************)
(* Scrolling.  The display is a set of lit logical cells <<x, y>>.         *)
(***************************************************************************)
\* the logical size of the display in the current mode
LogicalWidth ==
    IF mode = EXTENDED_MODE THEN SCREEN_WIDTH_EXTENDED ELSE SCREEN_WIDTH_NORMAL

LogicalHeight ==
    IF mode = EXTENDED_MODE THEN SCREEN_HEIGHT_EXTENDED ELSE SCREEN_HEIGHT_NORMAL

\* the display moved by dx columns and dy rows: cells moved past an edge
\* are dropped and the cells vacated are 0
Shifted(dx, dy) ==
    {<<c[1] + dx, c[2] + dy>> :
         c \in {c \in surface : /\ c[1] + dx >= 0 /\ c[1] + dx < LogicalWidth
                                /\ c[2] + dy >= 0 /\ c[2] + dy < LogicalHeight}}

\* C34: scroll_down(n) and scroll_up(n) complete without error and move
\* every row by n, filling the vacated rows with 0 and dropping the rows
\* moved past the edge.  Stated for the steps that call them, 00CN and
\* 00BN: the scroll does not raise, and the display is the old one shifted.
C34_ScrollUpDownShiftRows ==
    [][/\ (Fetches /\ opcode' \in 192..207) =>
              /\ exc' # "TypeError"
              /\ surface' = Shifted(0, OpN(opcode'))
       /\ (Fetches /\ opcode' \in 176..191) =>
              /\ exc' # "TypeError"
              /\ surface' = Shifted(0, 0 - OpN(opcode'))]_vars

\* C35: a step on 00FB (00FC) completes without error and leaves the
\* display shifted right (left) by 4 columns, in NORMAL and EXTENDED mode.
C35_ScrollRightLeftByFour ==
    [][/\ (Fetches /\ opcode' = 251) =>
              /\ exc' = "none"
              /\ surface' = Shifted(4, 0)
       /\ (Fetches /\ opcode' = 252) =>
              /\ exc' = "none"
              /\ surface' = Shifted(0 - 4, 0)]_vars

(***************************************************************************)
(* The flag register as the destination.                                   *)
(***************************************************************************)
\* C36: a flag-setting instruction whose destination is VF (8FY4, 8FY5,
\* 8FY7, 8FY6, 8FYE) leaves the flag in VF, not the result: the carry, the
\* no-borrow bit, or the bit shifted out.  The subtractions are stated for
\* operands that differ.
C36_FlagWrittenLast ==
    [][(Fetches /\ four_oldest_bits(opcode') = 8 /\ OpX(opcode') = 15) =>
          LET a == v[15]
              b == v[OpY(opcode')]
              k == OpN(opcode')
          IN  /\ k = 4 => v'[15] = IF a + b > 255 THEN 1 ELSE 0
              /\ (k = 5 /\ a # b) => v'[15] = IF a >= b THEN 1 ELSE 0
              /\ (k = 7 /\ a # b) => v'[15] = IF b >= a THEN 1 ELSE 0
              /\ k = 6 => v'[15] = a % 2
              /\ k = 14 => v'[15] = (a \div 128) % 2]_vars

(***************************************************************************)
(* Unknown instructions.                                                   *)
(***************************************************************************)
\* C37: a step on an opcode that has a registered handler never ends in
\* UnknownInstructionException, whatever the registers hold (EX9E and EXA1
\* with Vx above 0xF included).  Stated for the groups 0 to E, which
\* execute_opcode dispatches.
C37_UnknownOnlyWithoutHandler ==
    [][(/\ Fetches
        /\ four_oldest_bits(opcode') # 15
        /\ ~NoHandler(opcode')) =>
          exc' # "UnknownInstructionException"]_vars

====
